---- MODULE Spec2Model ----
(***************************************************************************)
(* LevelUp ATS API (src/main.py, src/schemas.py): the request handlers of  *)
(* the REST surface over a document store.                                 *)
(*                                                                         *)
(* The store holds seven collections of documents.  A document is a        *)
(* function from the names of the fields it has to their values, so a      *)
(* field that is absent is not in its DOMAIN; Python's None is NoneVal.    *)
(* The database module (db, create_document, get_documents) is imported    *)
(* by main.py and is not part of the sources: it is modelled from the      *)
(* specification's Document Store Adapter contract.                        *)
(***************************************************************************)
EXTENDS Integers, Sequences, FiniteSets, TLC

VARIABLES
    db,        \* TRUE iff the store handle `db` is not None
    store,     \* collection name -> sequence of documents, in natural order
    nextOid,   \* the next ObjectId the store assigns
    now,       \* what datetime.utcnow() returns; an update request's read advances it
    req,       \* the last request a handler answered (sequential server)
    resp,      \* the response to req
    seedRun,   \* completed /api/seed calls in a row, counted up to 2
    procs      \* concurrent server: request id -> the request's local state

vars == <<db, store, nextOid, now, req, resp, seedRun, procs>>

(* Bounds of the model. *)
MaxDocs == 2      \* entity POSTs are taken while the store holds fewer documents
MaxTime == 1      \* update requests are taken while the clock is below this

(* ---------------------------------------------------------------------- *)
(* Values                                                                  *)
(* ---------------------------------------------------------------------- *)

NoneVal == "None"

Collections ==
    {"job", "candidate", "interview", "feedback", "offer", "onboardingtask", "message"}

\* ObjectIds are 0, 1, 2, ...; the store assigns them from 1, so 0 is a
\* well-formed identifier that no document has.
OidSpace == 0..(MaxDocs + 13)

\* str(ObjectId): the identifier as the API shows it.
OidStr(oid) == "oid" \o ToString(oid)

\* bson.ObjectId(s) succeeds iff s is the string form of an ObjectId.
IsObjectIdStr(s) == \E oid \in OidSpace : OidStr(oid) = s

ObjectId(s) == CHOOSE oid \in OidSpace : OidStr(oid) = s

(* ---------------------------------------------------------------------- *)
(* Request models of main.py: the declared fields, those without a         *)
(* default (required), and the defaults.                                   *)
(* ---------------------------------------------------------------------- *)

JobIn ==
    [fields   |-> {"title", "department", "location", "status", "owner", "description"},
     required |-> {"title", "department", "owner"},
     defaults |-> [location |-> "Remote", status |-> "open", description |-> NoneVal]]

CandidateIn ==
    [fields   |-> {"name", "email", "phone", "current_role", "stage", "resume_url",
                   "skills", "assessment_scores", "notes", "job_id",
                   "salary_expectation", "avatar_url"},
     required |-> {"name", "email"},
     defaults |-> [phone |-> NoneVal, current_role |-> NoneVal, stage |-> "applied",
                   resume_url |-> NoneVal, skills |-> <<>>,
                   assessment_scores |-> NoneVal, notes |-> NoneVal,
                   job_id |-> NoneVal, salary_expectation |-> NoneVal,
                   avatar_url |-> NoneVal]]

InterviewIn ==
    [fields   |-> {"candidate_id", "candidate_name", "interviewer", "time", "status",
                   "meeting_url"},
     required |-> {"candidate_id", "candidate_name", "interviewer", "time"},
     defaults |-> [status |-> "scheduled", meeting_url |-> NoneVal]]

FeedbackIn ==
    [fields   |-> {"interview_id", "candidate_id", "ratings", "recommendation", "comments"},
     required |-> {"interview_id", "candidate_id", "ratings", "recommendation"},
     defaults |-> [comments |-> NoneVal]]

OfferIn ==
    [fields   |-> {"candidate_id", "candidate_name", "role", "proposed_salary", "status",
                   "template_name"},
     required |-> {"candidate_id", "candidate_name", "role", "proposed_salary"},
     defaults |-> [status |-> "draft", template_name |-> NoneVal]]

OnboardingTaskIn ==
    [fields   |-> {"candidate_id", "task", "assignee", "status"},
     required |-> {"candidate_id", "task"},
     defaults |-> [assignee |-> "HR", status |-> "pending"]]

MessageIn ==
    [fields   |-> {"sender", "receiver", "content"},
     required |-> {"sender", "receiver", "content"},
     defaults |-> <<>>]

StageUpdate ==
    [fields |-> {"stage"}, required |-> {"stage"}, defaults |-> <<>>]

OfferStatus ==
    [fields |-> {"status"}, required |-> {"status"}, defaults |-> <<>>]

\* Pydantic's validation of a JSON body against a model: every required
\* field is there (the values the clients below send have the declared
\* types).  Fields the model does not declare are ignored.
Validates(model, body) == model.required \subseteq DOMAIN body

\* model.model_dump(): the declared fields, defaults filled in.
model_dump(model, body) ==
    [f \in model.fields |-> IF f \in DOMAIN body THEN body[f] ELSE model.defaults[f]]

(* The enumerated fields schemas.py declares (Literal[...]), per collection. *)
JobStatuses == {"draft", "open", "paused", "closed"}
CandidateStages == {"applied", "screening", "interview", "offer", "hired", "rejected"}
InterviewStatuses == {"scheduled", "completed", "cancelled"}
Recommendations == {"proceed", "reject", "hold"}
OfferStatuses == {"draft", "routing", "approved", "sent", "accepted", "declined"}
Assignees == {"HR", "IT", "Admin"}
TaskStatuses == {"pending", "in_progress", "done"}

SchemaEnums ==
    [job            |-> [status |-> JobStatuses],
     candidate      |-> [stage |-> CandidateStages],
     interview      |-> [status |-> InterviewStatuses],
     feedback       |-> [recommendation |-> Recommendations],
     offer          |-> [status |-> OfferStatuses],
     onboardingtask |-> [assignee |-> Assignees, status |-> TaskStatuses],
     message        |-> <<>>]

(* ---------------------------------------------------------------------- *)
(* The document store                                                      *)
(* ---------------------------------------------------------------------- *)

EmptyStore == [c \in Collections |-> <<>>]

\* collection.insert_one(doc): the store adds _id and appends the document.
insert_one(st, coll, doc, oid) ==
    [st EXCEPT ![coll] = Append(@, [_id |-> oid] @@ doc)]

\* A query filter is {} (op "all"), {field: {"$nin": values}} or
\* {field: {"$in": values}}; {field: v} is {"$in": [v]}.  $nin also matches
\* a document that has no such field.
Matches(doc, filt) ==
    CASE filt.op = "all" -> TRUE
      [] filt.op = "nin" -> filt.field \notin DOMAIN doc \/ doc[filt.field] \notin filt.values
      [] filt.op = "in"  -> filt.field \in DOMAIN doc /\ doc[filt.field] \in filt.values

AllDocs == [op |-> "all"]

count_documents(st, coll, filt) ==
    Cardinality({i \in 1..Len(st[coll]) : Matches(st[coll][i], filt)})

MatchIndexes(st, coll, filt) == {i \in 1..Len(st[coll]) : Matches(st[coll][i], filt)}

FirstIndex(S) == CHOOSE i \in S : \A j \in S : i <= j

\* collection.find_one(filter): the first match in natural order (callers
\* test MatchIndexes for None).
find_one(st, coll, filt) == st[coll][FirstIndex(MatchIndexes(st, coll, filt))]

\* collection.update_one({"_id": oid}, {"$set": fields}): the first
\* document with that _id gets the fields; none matching is no change.
update_one(st, coll, oid, fields) ==
    LET hits == {i \in 1..Len(st[coll]) : st[coll][i]["_id"] = oid}
    IN  IF hits = {} THEN st
        ELSE [st EXCEPT ![coll] =
                 [i \in 1..Len(@) |-> IF i = FirstIndex(hits) THEN fields @@ @[i] ELSE @[i]]]

\* Adapter: create_document(collection, payload) inserts the payload and
\* returns the new identifier as a string.
create_document(st, coll, payload, oid) == insert_one(st, coll, payload, oid)

\* Adapter: create_document fails (StorageUnavailable) when no store
\* connection exists.
StorageUnavailable == ~db

\* Adapter: get_documents(collection) returns every document with its
\* identifier as the string field id.
Serialize(doc) ==
    [f \in (DOMAIN doc \ {"_id"}) \cup {"id"} |->
        IF f = "id" THEN OidStr(doc["_id"]) ELSE doc[f]]

get_documents(st, coll) == [i \in 1..Len(st[coll]) |-> Serialize(st[coll][i])]

TotalDocs(st) == Len(st["job"]) + Len(st["candidate"]) + Len(st["interview"])
                 + Len(st["feedback"]) + Len(st["offer"]) + Len(st["onboardingtask"])
                 + Len(st["message"])

(* ---------------------------------------------------------------------- *)
(* POST /api/seed, one store call at a time                                *)
(* ---------------------------------------------------------------------- *)

\* sample_jobs, built when the job collection was counted empty; t is
\* datetime.utcnow(), and the second job was posted three units earlier.
sample_jobs(t) ==
    << [title |-> "Senior Frontend Engineer", department |-> "Engineering",
        location |-> "Remote", status |-> "open", owner |-> "Alex Johnson",
        description |-> "Own the web UI and design systems.", date_posted |-> t],
       [title |-> "Product Manager", department |-> "Product",
        location |-> "NYC", status |-> "open", owner |-> "Priya Sharma",
        description |-> "Drive roadmap and outcomes.", date_posted |-> t - 3] >>

sample_candidates ==
    << [name |-> "Jordan Lee", email |-> "jordan@example.com",
        current_role |-> "Frontend Engineer", stage |-> "interview",
        skills |-> <<"React", "TypeScript", "Tailwind">>,
        assessment_scores |-> "technical=85,culture=78,communication=88",
        avatar_url |-> "https://i.pravatar.cc/120?img=5"],
       [name |-> "Samira Khan", email |-> "samira@example.com",
        current_role |-> "Product Manager", stage |-> "applied",
        skills |-> <<"Roadmapping", "Analytics", "User Research">>,
        assessment_scores |-> "technical=70,culture=90,communication=92",
        avatar_url |-> "https://i.pravatar.cc/120?img=32"],
       [name |-> "Diego Martinez", email |-> "diego@example.com",
        current_role |-> "Backend Engineer", stage |-> "offer",
        skills |-> <<"Python", "FastAPI", "MongoDB">>,
        assessment_scores |-> "technical=91,culture=84,communication=80",
        avatar_url |-> "https://i.pravatar.cc/120?img=15"] >>

\* The interview seeded for the candidate find_one returned, four units on.
sample_interview(cand, t) ==
    [candidate_id |-> OidStr(cand["_id"]),
     candidate_name |-> IF "name" \in DOMAIN cand THEN cand["name"] ELSE NoneVal,
     interviewer |-> "Alex Johnson", time |-> t + 4, status |-> "scheduled",
     meeting_url |-> "https://meet.example.com/abc"]

InterviewStage == [op |-> "in", field |-> "stage", values |-> {"interview"}]

\* The handler's local state on entry (db is not None).
SeedStart == [pc |-> "count_job", k |-> 0, cand |-> NoneVal, code |-> 0]

SeedFailed == [pc |-> "done", k |-> 0, cand |-> NoneVal, code |-> 500]

SeedDone == [pc |-> "done", k |-> 0, cand |-> NoneVal, code |-> 200]

SeedAt(pc, k) == [pc |-> pc, k |-> k, cand |-> NoneVal, code |-> 0]

\* Faulty variant: the emptiness check is dropped.
IsEmpty_unchecked(st, coll) == TRUE

\* The emptiness check of a collection: count_documents({}) == 0.
IsEmpty(st, coll) == count_documents(st, coll, AllDocs) = 0

\* One store call of seed_demo_data with local state l, on store st with
\* next identifier oid at time t; ok is whether the call succeeds (a call
\* that raises ends the request with a 500).  Gives the store, the next
\* identifier and the local state after the call.
SeedStep(st, oid, t, l, ok) ==
    LET same(l2) == [st |-> st, oid |-> oid, l |-> l2]
        put(coll, doc, l2) ==
            [st |-> create_document(st, coll, doc, oid), oid |-> oid + 1, l |-> l2]
    IN  IF ~ok THEN same(SeedFailed)
        ELSE CASE l.pc = "count_job" ->
                    IF IsEmpty(st, "job") THEN same(SeedAt("ins_job", 1))
                    ELSE same(SeedAt("count_candidate", 0))
               [] l.pc = "ins_job" ->
                    put("job", sample_jobs(t)[l.k],
                        IF l.k < Len(sample_jobs(t)) THEN SeedAt("ins_job", l.k + 1)
                        ELSE SeedAt("count_candidate", 0))
               [] l.pc = "count_candidate" ->
                    IF IsEmpty(st, "candidate") THEN same(SeedAt("ins_candidate", 1))
                    ELSE same(SeedAt("count_interview", 0))
               [] l.pc = "ins_candidate" ->
                    put("candidate", sample_candidates[l.k],
                        IF l.k < Len(sample_candidates) THEN SeedAt("ins_candidate", l.k + 1)
                        ELSE SeedAt("count_interview", 0))
               [] l.pc = "count_interview" ->
                    IF IsEmpty(st, "interview") THEN same(SeedAt("find_candidate", 0))
                    ELSE same(SeedDone)
               [] l.pc = "find_candidate" ->
                    IF MatchIndexes(st, "candidate", InterviewStage) # {}
                    THEN same([pc |-> "ins_interview", k |-> 0,
                               cand |-> find_one(st, "candidate", InterviewStage),
                               code |-> 0])
                    ELSE same(SeedDone)
               [] l.pc = "ins_interview" ->
                    put("interview", sample_interview(l.cand, t), SeedDone)

\* The request run to its end without another request in between; the
\* n-th store call raises iff n = failAt.
RECURSIVE SeedRun(_, _, _, _, _, _)
SeedRun(st, oid, t, l, n, failAt) ==
    IF l.pc = "done" THEN [st |-> st, oid |-> oid, l |-> l]
    ELSE LET r == SeedStep(st, oid, t, l, n # failAt)
         IN  SeedRun(r.st, r.oid, t, r.l, n + 1, failAt)

(* ---------------------------------------------------------------------- *)
(* The handlers, each answering one request at a time                      *)
(* ---------------------------------------------------------------------- *)

time_to_fill == 24

Ok(body) == [code |-> 200, body |-> body]

Err(code) == [code |-> code, body |-> "error"]

Request(op, path, body) == [op |-> op, path |-> path, body |-> body]

NoRequest == Request("none", "", NoneVal)

NoResponse == [code |-> 0, body |-> NoneVal]

\* The server takes a request when it is answering none, and a handler
\* does not change the handle.
Stateless == req.op = "none" /\ UNCHANGED <<db, procs>>

\* POST of an entity: FastAPI validates the body against the request model
\* (422), then the handler hands payload to create_document, which raises
\* without a store handle or when the store call fails (500), and returns
\* the new id.
Create(op, model, coll, path, body, payload) ==
    /\ req' = Request(op, path, body)
    /\ seedRun' = 0
    /\ Stateless
    /\ now' = now
    /\ IF ~Validates(model, body)
       THEN resp' = Err(422) /\ UNCHANGED <<store, nextOid>>
       ELSE IF StorageUnavailable
       THEN resp' = Err(500) /\ UNCHANGED <<store, nextOid>>
       ELSE \/ /\ TotalDocs(store) < MaxDocs
               /\ store' = create_document(store, coll, payload, nextOid)
               /\ nextOid' = nextOid + 1
               /\ resp' = Ok([id |-> OidStr(nextOid)])
            \/ resp' = Err(500) /\ UNCHANGED <<store, nextOid>>

\* What GET of a collection returns: get_documents(...) if db else [].
ListBody(coll) == IF ~db THEN <<>> ELSE get_documents(store, coll)

\* GET of a collection; the store call may raise (500).
List(op, coll) ==
    /\ req' = Request(op, "", NoneVal)
    /\ seedRun' = 0
    /\ Stateless
    /\ UNCHANGED <<store, nextOid, now>>
    /\ \/ resp' = Ok(ListBody(coll))
       \/ db /\ resp' = Err(500)

create_job(body) ==
    Create("create_job", JobIn, "job", "", body, model_dump(JobIn, body))

list_jobs == List("list_jobs", "job")

create_candidate(body) ==
    Create("create_candidate", CandidateIn, "candidate", "", body,
           model_dump(CandidateIn, body))

list_candidates == List("list_candidates", "candidate")

create_interview(body) ==
    Create("create_interview", InterviewIn, "interview", "", body,
           model_dump(InterviewIn, body))

list_interviews == List("list_interviews", "interview")

\* Faulty variant: the feedback is stored as the body gives it, the path's id
\* not merged in.
create_feedback_body_only(interview_id, body) ==
    Create("create_feedback", FeedbackIn, "feedback", interview_id, body,
           model_dump(FeedbackIn, body))

\* {**feedback.model_dump(), "interview_id": interview_id}: the path's id
\* replaces the body's.
create_feedback(interview_id, body) ==
    Create("create_feedback", FeedbackIn, "feedback", interview_id, body,
           [interview_id |-> interview_id] @@ model_dump(FeedbackIn, body))

create_offer(body) ==
    Create("create_offer", OfferIn, "offer", "", body, model_dump(OfferIn, body))

list_offers == List("list_offers", "offer")

create_onboarding(body) ==
    Create("create_onboarding", OnboardingTaskIn, "onboardingtask", "", body,
           model_dump(OnboardingTaskIn, body))

list_onboarding == List("list_onboarding", "onboardingtask")

create_message(body) ==
    Create("create_message", MessageIn, "message", "", body, model_dump(MessageIn, body))

list_messages == List("list_messages", "message")

\* The {"$set": ...} document of the two update handlers.
SetFields(field, value, t) == (field :> value) @@ ("updated_at" :> t)

\* Faulty variant: the filter is lost and every document of the collection is set.
set_by_id_everywhere(st, coll, id, field, value, t) ==
    [st EXCEPT ![coll] = [i \in 1..Len(@) |-> SetFields(field, value, t) @@ @[i]]]

\* Faulty variant: updated_at is the time the store applies the update, not the
\* time the request read.
set_by_id_stamped_late(st, coll, id, field, value, t) ==
    update_one(st, coll, ObjectId(id), SetFields(field, value, now))

\* The store call of the two update handlers:
\* db[coll].update_one({"_id": ObjectId(id)}, {"$set": {field: value, "updated_at": t}}).
set_by_id(st, coll, id, field, value, t) ==
    update_one(st, coll, ObjectId(id), SetFields(field, value, t))

\* Faulty variant: the handle is not tested, and db[coll] raising on None is
\* caught by the handler's own except clause (400).
UpdateById_handle_untested(op, model, coll, field, id, payload) ==
    /\ req' = Request(op, id, payload)
    /\ seedRun' = 0
    /\ Stateless
    /\ nextOid' = nextOid
    /\ IF ~Validates(model, payload)
       THEN resp' = Err(422) /\ UNCHANGED <<store, now>>
       ELSE IF ~db \/ ~IsObjectIdStr(id)
       THEN resp' = Err(400) /\ UNCHANGED <<store, now>>
       ELSE /\ now < MaxTime
            /\ now' = now + 1
            /\ \/ /\ store' = update_one(store, coll, ObjectId(id),
                                         SetFields(field, payload[field], now))
                  /\ resp' = Ok([status |-> "ok"])
               \/ resp' = Err(400) /\ store' = store

\* POST /api/candidates/{id}/stage and POST /api/offers/{id}/status: 500
\* without a store handle; inside the try, ObjectId(id) or the store call
\* raising is answered 400; otherwise ok, whether or not a document matched.
UpdateById(op, model, coll, field, id, payload) ==
    /\ req' = Request(op, id, payload)
    /\ seedRun' = 0
    /\ Stateless
    /\ nextOid' = nextOid
    /\ IF ~Validates(model, payload)
       THEN resp' = Err(422) /\ UNCHANGED <<store, now>>
       ELSE IF ~db
       THEN resp' = Err(500) /\ UNCHANGED <<store, now>>
       ELSE IF ~IsObjectIdStr(id)
       THEN resp' = Err(400) /\ UNCHANGED <<store, now>>
       ELSE /\ now < MaxTime
            /\ now' = now + 1
            /\ \/ /\ store' = set_by_id(store, coll, id, field, payload[field], now)
                  /\ resp' = Ok([status |-> "ok"])
               \/ resp' = Err(400) /\ store' = store

update_candidate_stage(candidate_id, payload) ==
    UpdateById("update_candidate_stage", StageUpdate, "candidate", "stage",
               candidate_id, payload)

update_offer_status(offer_id, payload) ==
    UpdateById("update_offer_status", OfferStatus, "offer", "status", offer_id, payload)

\* POST /api/seed.
seed_demo_data ==
    /\ req' = Request("seed_demo_data", "", NoneVal)
    /\ Stateless
    /\ IF ~db
       THEN resp' = Err(500) /\ seedRun' = 0 /\ UNCHANGED <<store, nextOid, now>>
       ELSE \E failAt \in {0, 1} :
              LET r == SeedRun(store, nextOid, now, SeedStart, 1, failAt)
              IN  /\ store' = r.st
                  /\ nextOid' = r.oid
                  /\ now' = now
                  /\ resp' = IF r.l.code = 200 THEN Ok([status |-> "ok"]) ELSE Err(500)
                  /\ seedRun' = IF r.l.code # 200 THEN 0
                                ELSE IF seedRun < 2 THEN seedRun + 1 ELSE 2

ActiveStages == [op |-> "nin", field |-> "stage", values |-> {"rejected", "hired"}]

SentStatuses == [op |-> "in", field |-> "status", values |-> {"sent", "accepted", "declined"}]

HiredStage == [op |-> "in", field |-> "stage", values |-> {"hired"}]

\* get_metrics' count(col, filt): 0 without a store handle.
count(col, filt) == IF ~db THEN 0 ELSE count_documents(store, col, filt)

\* Faulty variant: active candidates are counted with $in over the other stages,
\* which misses a candidate that has no stage.
metrics_body_in_filter ==
    [total_jobs |-> count("job", AllDocs),
     active_candidates |->
        count("candidate", [op |-> "in", field |-> "stage",
                            values |-> {"applied", "screening", "interview", "offer"}]),
     offers_sent |-> count("offer", SentStatuses),
     time_to_fill |-> time_to_fill]

\* The body GET /api/metrics returns.
metrics_body ==
    [total_jobs |-> count("job", AllDocs),
     active_candidates |-> count("candidate", ActiveStages),
     offers_sent |-> count("offer", SentStatuses),
     time_to_fill |-> time_to_fill]

\* GET /api/metrics; a count may raise (500).
get_metrics ==
    /\ req' = Request("get_metrics", "", NoneVal)
    /\ seedRun' = 0
    /\ Stateless
    /\ UNCHANGED <<store, nextOid, now>>
    /\ \/ resp' = Ok(metrics_body)
       \/ db /\ resp' = Err(500)

\* GET /api/analytics.
analytics_placeholder ==
    /\ req' = Request("analytics_placeholder", "", NoneVal)
    /\ seedRun' = 0
    /\ Stateless
    /\ UNCHANGED <<store, nextOid, now>>
    /\ \/ resp' = Ok([funnel |->
                        [applications |-> IF db THEN count_documents(store, "candidate", AllDocs) ELSE 0,
                         interviews |-> IF db THEN count_documents(store, "interview", AllDocs) ELSE 0,
                         offers |-> IF db THEN count_documents(store, "offer", AllDocs) ELSE 0,
                         hires |-> IF db THEN count_documents(store, "candidate", HiredStage) ELSE 0],
                      avg_time_per_stage |->
                        [applied |-> "2.5", screening |-> "3.1", interview |-> "5.2",
                         offer |-> "1.3"],
                      offer_acceptance_rate |-> "0.72",
                      top_sources |-> <<[source |-> "LinkedIn", count |-> 48],
                                        [source |-> "Referrals", count |-> 31],
                                        [source |-> "Careers Page", count |-> 22]>>])
       \/ db /\ resp' = Err(500)

\* The client has the response: the exchange is over.
Return ==
    /\ req.op # "none"
    /\ req' = NoRequest
    /\ resp' = NoResponse
    /\ UNCHANGED <<db, store, nextOid, now, seedRun, procs>>

(* ---------------------------------------------------------------------- *)
(* Requests the clients send                                               *)
(* ---------------------------------------------------------------------- *)

JobBodies ==
    { [title |-> "QA Engineer", department |-> "Engineering", owner |-> "Sam"],
      [title |-> "QA Engineer", department |-> "Engineering", owner |-> "Sam",
       status |-> "archived"],
      [department |-> "Engineering", owner |-> "Sam"] }

CandidateBodies ==
    { [name |-> "Ada", email |-> "ada@example.com"],
      [name |-> "Ada", email |-> "ada@example.com", stage |-> "hired",
       skills |-> <<"Python">>],
      [name |-> "Ada"] }

InterviewBodies ==
    { [candidate_id |-> "oid1", candidate_name |-> "Ada", interviewer |-> "Sam", time |-> 9],
      [candidate_id |-> "oid1", candidate_name |-> "Ada", interviewer |-> "Sam"] }

FeedbackBodies ==
    { [interview_id |-> "oid1", candidate_id |-> "oid1", ratings |-> "technical=4",
       recommendation |-> "proceed"],
      [interview_id |-> "oid1", candidate_id |-> "oid1", ratings |-> "technical=4"] }

OfferBodies ==
    { [candidate_id |-> "oid1", candidate_name |-> "Ada", role |-> "QA",
       proposed_salary |-> "100k"],
      [candidate_id |-> "oid1", candidate_name |-> "Ada", proposed_salary |-> "100k"] }

OnboardingBodies ==
    { [candidate_id |-> "oid1", task |-> "Laptop"],
      [candidate_id |-> "oid1"] }

MessageBodies ==
    { [sender |-> "Sam", receiver |-> "Ada", content |-> "Hello"],
      [sender |-> "Sam", receiver |-> "Ada", content |-> "Hello", timestamp |-> 7],
      [sender |-> "Sam", receiver |-> "Ada"] }

\* Stage and status updates, <<id in the path, body>>: identifiers the
\* store may have assigned (to a document of this or of another
\* collection, or not yet), and a string that is no ObjectId.
StageRequests ==
    { <<OidStr(1), [stage |-> "rejected"]>>, <<OidStr(1), [stage |-> "onsite"]>>,
      <<OidStr(3), [stage |-> "rejected"]>>, <<"not-an-id", [stage |-> "rejected"]>>,
      <<OidStr(1), <<>>>> }

StatusRequests ==
    { <<OidStr(1), [status |-> "accepted"]>>, <<OidStr(1), [status |-> "lost"]>>,
      <<"not-an-id", [status |-> "accepted"]>>, <<OidStr(1), <<>>>> }

FeedbackPathIds == {OidStr(2)}

(* ---------------------------------------------------------------------- *)
(* The server answering one request at a time                              *)
(* ---------------------------------------------------------------------- *)

\* A store written before this process started may hold documents of
\* other shapes: here, a candidate with no stage field.
LegacyStore ==
    [EmptyStore EXCEPT !["candidate"] =
        << [_id |-> 1, name |-> "Pat Doe", email |-> "pat@example.com"] >>]

Init ==
    /\ db \in BOOLEAN
    /\ \/ store = EmptyStore /\ nextOid = 1
       \/ store = LegacyStore /\ nextOid = 2
    /\ now = 0
    /\ req = NoRequest
    /\ resp = NoResponse
    /\ seedRun = 0
    /\ procs = <<>>

Next ==
    \/ \E body \in JobBodies : create_job(body)
    \/ list_jobs
    \/ \E body \in CandidateBodies : create_candidate(body)
    \/ list_candidates
    \/ \E r \in StageRequests : update_candidate_stage(r[1], r[2])
    \/ \E body \in InterviewBodies : create_interview(body)
    \/ list_interviews
    \/ \E id \in FeedbackPathIds, body \in FeedbackBodies : create_feedback(id, body)
    \/ \E body \in OfferBodies : create_offer(body)
    \/ list_offers
    \/ \E r \in StatusRequests : update_offer_status(r[1], r[2])
    \/ \E body \in OnboardingBodies : create_onboarding(body)
    \/ list_onboarding
    \/ \E body \in MessageBodies : create_message(body)
    \/ list_messages
    \/ seed_demo_data
    \/ get_metrics
    \/ analytics_placeholder
    \/ Return

Spec == Init /\ [][Next]_vars

(* ---------------------------------------------------------------------- *)
(* The server answering requests concurrently: every store call of a       *)
(* request is one step, and the calls of different requests interleave.    *)
(* Each of the two requests in flight is a seed or a stage update.         *)
(* ---------------------------------------------------------------------- *)

Procs == {"r1", "r2"}

\* A request's local state: the handler (op), where it is (pc), the seed
\* handler's locals (k, cand), the stage update's path, body and the time
\* it read (t), the response code once done, and, for a stage update the
\* store applied, its place among the applied ones (order, from 1) and
\* whether a document matched.
NotStarted ==
    [op |-> "none", pc |-> "idle", k |-> 0, cand |-> NoneVal, path |-> "",
     body |-> <<>>, t |-> 0, code |-> 0, order |-> 0, matched |-> FALSE]

Answered(l, code) == [l EXCEPT !.pc = "done", !.code = code]

SeedPcs ==
    {"count_job", "ins_job", "count_candidate", "ins_candidate", "count_interview",
     "find_candidate", "ins_interview"}

ConcStageRequests ==
    { <<OidStr(3), [stage |-> "hired"]>>, <<OidStr(3), [stage |-> "rejected"]>>,
      <<OidStr(4), [stage |-> "hired"]>>, <<OidStr(0), [stage |-> "hired"]>>,
      <<"not-an-id", [stage |-> "hired"]>> }

Sequential == UNCHANGED <<req, resp, seedRun>>

\* seed_demo_data is entered: 500 without a store handle.
StartSeed(p) ==
    /\ procs[p].pc = "idle"
    /\ procs' = [procs EXCEPT ![p] =
                    IF ~db THEN Answered([@ EXCEPT !.op = "seed"], 500)
                    ELSE [@ EXCEPT !.op = "seed", !.pc = "count_job"]]
    /\ UNCHANGED <<db, store, nextOid, now>>
    /\ Sequential

\* The next store call of a seed request; the call succeeds or raises.
SeedCall(p) ==
    /\ procs[p].op = "seed"
    /\ procs[p].pc \in SeedPcs
    /\ \E ok \in BOOLEAN :
         LET l == procs[p]
             r == SeedStep(store, nextOid, now,
                           [pc |-> l.pc, k |-> l.k, cand |-> l.cand, code |-> l.code], ok)
         IN  /\ store' = r.st
             /\ nextOid' = r.oid
             /\ procs' = [procs EXCEPT ![p] =
                             [@ EXCEPT !.pc = r.l.pc, !.k = r.l.k, !.cand = r.l.cand,
                                       !.code = r.l.code]]
    /\ UNCHANGED <<db, now>>
    /\ Sequential

\* update_candidate_stage up to its store call: the body is validated, the
\* handle tested, and the arguments of update_one evaluated, ObjectId(id)
\* first (400 if it raises), then datetime.utcnow().
StartStage(p, candidate_id, payload) ==
    /\ procs[p].pc = "idle"
    /\ LET l == [procs[p] EXCEPT !.op = "stage", !.path = candidate_id, !.body = payload]
       IN  IF ~Validates(StageUpdate, payload)
           THEN procs' = [procs EXCEPT ![p] = Answered(l, 422)] /\ now' = now
           ELSE IF ~db
           THEN procs' = [procs EXCEPT ![p] = Answered(l, 500)] /\ now' = now
           ELSE IF ~IsObjectIdStr(candidate_id)
           THEN procs' = [procs EXCEPT ![p] = Answered(l, 400)] /\ now' = now
           ELSE /\ procs' = [procs EXCEPT ![p] = [l EXCEPT !.pc = "update_one", !.t = now]]
                /\ now' = now + 1
    /\ UNCHANGED <<db, store, nextOid>>
    /\ Sequential

Applied == {q \in Procs : procs[q].order > 0}

\* The store call of a stage update: the store applies the $set in one
\* step and the request is answered ok, or the call raises and it is
\* answered 400.
StageCall(p) ==
    /\ procs[p].op = "stage"
    /\ procs[p].pc = "update_one"
    /\ \/ /\ store' = set_by_id(store, "candidate", procs[p].path, "stage",
                                procs[p].body["stage"], procs[p].t)
          /\ procs' = [procs EXCEPT ![p] =
                          Answered([@ EXCEPT !.order = Cardinality(Applied) + 1,
                                             !.matched = store' # store], 200)]
       \/ /\ store' = store
          /\ procs' = [procs EXCEPT ![p] = Answered(@, 400)]
    /\ UNCHANGED <<db, nextOid, now>>
    /\ Sequential

\* The store after one seed request on an empty store.
SeededWorld == SeedRun(EmptyStore, 1, 0, SeedStart, 1, 0)

InitConc ==
    /\ db \in BOOLEAN
    /\ \/ store = EmptyStore /\ nextOid = 1
       \/ store = SeededWorld.st /\ nextOid = SeededWorld.oid
    /\ now = 0
    /\ req = NoRequest
    /\ resp = NoResponse
    /\ seedRun = 0
    /\ procs = [p \in Procs |-> NotStarted]

NextConc ==
    \E p \in Procs :
        \/ StartSeed(p)
        \/ SeedCall(p)
        \/ \E r \in ConcStageRequests : StartStage(p, r[1], r[2])
        \/ StageCall(p)

SpecConc == InitConc /\ [][NextConc]_vars

(* ---------------------------------------------------------------------- *)
(* Properties                                                              *)
(* ---------------------------------------------------------------------- *)

\* The step is a handler answering request op.
Handled(op) == req.op = "none" /\ req'.op = op

\* The create endpoints: the collection each writes and its request model.
Entities ==
    [create_job        |-> [coll |-> "job",            model |-> JobIn],
     create_candidate  |-> [coll |-> "candidate",      model |-> CandidateIn],
     create_interview  |-> [coll |-> "interview",      model |-> InterviewIn],
     create_feedback   |-> [coll |-> "feedback",       model |-> FeedbackIn],
     create_offer      |-> [coll |-> "offer",          model |-> OfferIn],
     create_onboarding |-> [coll |-> "onboardingtask", model |-> OnboardingTaskIn],
     create_message    |-> [coll |-> "message",        model |-> MessageIn]]

CreateOps == DOMAIN Entities

\* A body carries a value outside an enum its entity declares.
EnumViolation(coll, body) ==
    \E f \in DOMAIN SchemaEnums[coll] \cap DOMAIN body : body[f] \notin SchemaEnums[coll][f]

\* C1: a create request whose body omits a required field or carries a
\* value outside the entity's declared enum is rejected and no document is
\* inserted.
C1_InvalidBodyRejected ==
    [][\A op \in CreateOps :
          (/\ Handled(op)
           /\ \/ ~(Entities[op].model.required \subseteq DOMAIN req'.body)
              \/ EnumViolation(Entities[op].coll, req'.body))
          => (resp'.code # 200 /\ store' = store)]_vars

\* The records GET shows for the collection of the create request answered
\* last (feedback has no GET endpoint: its stored documents, as the adapter
\* lists them).
Shown == IF req.op = "create_feedback" THEN get_documents(store, "feedback")
         ELSE ListBody(Entities[req.op].coll)

PostAnswered == req.op \in CreateOps /\ resp.code = 200

\* The records shown that carry the id the POST returned.
Returned == {i \in 1..Len(Shown) : Shown[i]["id"] = resp.body["id"]}

C3_UpdateValueValidated ==
    [][/\ (Handled("update_candidate_stage") /\ "stage" \in DOMAIN req'.body
           /\ req'.body["stage"] \notin CandidateStages)
          => (resp'.code # 200 /\ store' = store)
       /\ (Handled("update_offer_status") /\ "status" \in DOMAIN req'.body
           /\ req'.body["status"] \notin OfferStatuses)
          => (resp'.code # 200 /\ store' = store)]_vars

\* The stage of a stored candidate ("(absent)" when it has no such field).
StageOf(doc) == IF "stage" \in DOMAIN doc THEN doc["stage"] ELSE "(absent)"

\* The places of the candidates with the identifier a path names.
CandidatesAt(st, id) ==
    IF IsObjectIdStr(id)
    THEN {i \in 1..Len(st["candidate"]) : st["candidate"][i]["_id"] = ObjectId(id)}
    ELSE {}

\* C4: a stage update answered ok on an existing candidate leaves that
\* candidate with the stage of the request and updated_at the time of the
\* call, and changes nothing else: no other field of it, no other
\* candidate, no other collection.  No other request changes the stage of
\* a candidate the store holds.
C4_StageSetAndFramed ==
    [][/\ (Handled("update_candidate_stage") /\ resp'.code = 200)
          => /\ \A c \in Collections \ {"candidate"} : store'[c] = store[c]
             /\ Len(store'["candidate"]) = Len(store["candidate"])
             /\ \A i \in 1..Len(store["candidate"]) :
                  LET old == store["candidate"][i]
                      new == store'["candidate"][i]
                  IN  IF i \in CandidatesAt(store, req'.path)
                      THEN /\ DOMAIN new = DOMAIN old \cup {"stage", "updated_at"}
                           /\ new["stage"] = req'.body["stage"]
                           /\ new["updated_at"] = now
                           /\ \A f \in DOMAIN old \ {"stage", "updated_at"} : new[f] = old[f]
                      ELSE new = old
       /\ ~Handled("update_candidate_stage")
          => /\ Len(store'["candidate"]) >= Len(store["candidate"])
             /\ \A i \in 1..Len(store["candidate"]) :
                  StageOf(store'["candidate"][i]) = StageOf(store["candidate"][i])]_vars

\* A stage update was answered ok for one of three stored candidates, which
\* now has the stage and the time of the request.
C4_Witness ==
    /\ req.op = "update_candidate_stage"
    /\ resp.code = 200
    /\ Len(store["candidate"]) = 3
    /\ \E i \in CandidatesAt(store, req.path) :
         /\ store["candidate"][i]["stage"] = req.body["stage"]
         /\ store["candidate"][i]["updated_at"] = now - 1

\* C5: a validated stage or status update whose id is well formed and
\* matches no document is answered ok and changes nothing; the answer is
\* 400 only when the id is not well formed, and nothing changes then.
C5_BadRequestOnlyForMalformedId ==
    [][\A op \in {"update_candidate_stage", "update_offer_status"} :
          (Handled(op) /\ db /\ DOMAIN req'.body # {})
          => LET coll == IF op = "update_candidate_stage" THEN "candidate" ELSE "offer"
                 hits == IF IsObjectIdStr(req'.path)
                         THEN {i \in 1..Len(store[coll]) :
                                  store[coll][i]["_id"] = ObjectId(req'.path)}
                         ELSE {}
             IN  /\ resp'.code = 400 <=> ~IsObjectIdStr(req'.path)
                 /\ ~IsObjectIdStr(req'.path) => store' = store
                 /\ (IsObjectIdStr(req'.path) /\ hits = {})
                    => (resp'.code = 200 /\ store' = store)]_vars

\* C6: the counts GET /api/metrics returns are the number of jobs, of
\* candidates whose stage is neither rejected nor hired (a candidate with
\* no stage counts), and of offers sent, accepted or declined, in the store
\* it counted; time_to_fill is 24.
C6_MetricsCountTheStore ==
    (req.op = "get_metrics" /\ resp.code = 200 /\ db)
    => /\ resp.body["total_jobs"] = Len(store["job"])
       /\ resp.body["active_candidates"] =
            Cardinality({i \in 1..Len(store["candidate"]) :
                            StageOf(store["candidate"][i]) \notin {"rejected", "hired"}})
       /\ resp.body["offers_sent"] =
            Cardinality({i \in 1..Len(store["offer"]) :
                            /\ "status" \in DOMAIN store["offer"][i]
                            /\ store["offer"][i]["status"] \in {"sent", "accepted", "declined"}})
       /\ resp.body["time_to_fill"] = 24

\* Metrics were returned for a store with a candidate that has no stage
\* (counted) and a hired one (not counted).
C6_Witness ==
    /\ req.op = "get_metrics" /\ resp.code = 200 /\ db
    /\ resp.body["active_candidates"] = 1
    /\ \E i, j \in 1..Len(store["candidate"]) :
         /\ "stage" \notin DOMAIN store["candidate"][i]
         /\ StageOf(store["candidate"][j]) = "hired"

Seeded == {"job", "candidate", "interview"}

\* C7: a seed call that completes right after a completed seed call leaves
\* the store as it was; a seed call adds documents to a collection only if
\* the collection was empty, and only to the job, candidate and interview
\* collections.
C7_SeedIdempotent ==
    [][Handled("seed_demo_data")
       => /\ (seedRun >= 1 /\ resp'.code = 200) => store' = store
          /\ \A c \in Seeded : store'[c] # store[c] => store[c] = <<>>
          /\ \A c \in Collections \ Seeded : store'[c] = store[c]]_vars

\* Two seed calls completed in a row, the first on an empty store.
C7_Witness ==
    /\ seedRun = 2
    /\ req.op = "seed_demo_data" /\ resp.code = 200
    /\ Len(store["job"]) = 2 /\ Len(store["candidate"]) = 3 /\ Len(store["interview"]) = 1

ListOps ==
    {"list_jobs", "list_candidates", "list_interviews", "list_offers", "list_onboarding",
     "list_messages"}

\* The request passed FastAPI's validation and reached its handler.
ReachedHandler ==
    CASE req.op \in CreateOps -> Validates(Entities[req.op].model, req.body)
      [] req.op = "update_candidate_stage" -> Validates(StageUpdate, req.body)
      [] req.op = "update_offer_status" -> Validates(OfferStatus, req.body)
      [] OTHER -> TRUE

WriteOps == CreateOps \cup {"update_candidate_stage", "update_offer_status", "seed_demo_data"}

\* C8 as stated: without a store handle every GET of a collection returns
\* an empty list and every count of the metrics and of the analytics is 0,
\* every write request (entity POST, stage and status update, seed) is
\* answered with a server error, and nothing changes.
C8_EveryWriteServerError ==
    /\ [](~db =>
            /\ req.op \in ListOps => (resp.code = 200 /\ resp.body = <<>>)
            /\ req.op = "get_metrics"
               => /\ resp.code = 200
                  /\ resp.body["total_jobs"] = 0
                  /\ resp.body["active_candidates"] = 0
                  /\ resp.body["offers_sent"] = 0
            /\ req.op = "analytics_placeholder"
               => /\ resp.code = 200
                  /\ \A k \in DOMAIN resp.body["funnel"] : resp.body["funnel"][k] = 0
            /\ req.op \in WriteOps => resp.code >= 500)
    /\ [][~db => (store' = store /\ nextOid' = nextOid)]_vars

\* C8 as amended: without a store handle every GET of a collection returns
\* an empty list and every count of the metrics and of the analytics is 0,
\* every write request whose body passes validation and so reaches its
\* handler (entity POST, stage and status update, seed) is answered with a
\* server error, and nothing changes.
C8_AbsentStoreHandle ==
    /\ [](~db =>
            /\ req.op \in ListOps => (resp.code = 200 /\ resp.body = <<>>)
            /\ req.op = "get_metrics"
               => /\ resp.code = 200
                  /\ resp.body["total_jobs"] = 0
                  /\ resp.body["active_candidates"] = 0
                  /\ resp.body["offers_sent"] = 0
            /\ req.op = "analytics_placeholder"
               => /\ resp.code = 200
                  /\ \A k \in DOMAIN resp.body["funnel"] : resp.body["funnel"][k] = 0
            /\ (req.op \in WriteOps /\ ReachedHandler) => resp.code >= 500)
    /\ [][~db => (store' = store /\ nextOid' = nextOid)]_vars

\* Without a store handle a stage update for a candidate the store holds
\* was answered with a server error.
C8_Witness ==
    /\ ~db
    /\ req.op = "update_candidate_stage"
    /\ resp.code = 500
    /\ CandidatesAt(store, req.path) # {}

\* The stage updates the store applied to the candidate with identifier oid.
StageWriters(oid) ==
    {p \in Procs : /\ procs[p].op = "stage"
                   /\ procs[p].order > 0
                   /\ procs[p].matched
                   /\ ObjectId(procs[p].path) = oid}

LastWriter(W) == CHOOSE p \in W : \A q \in W : procs[q].order <= procs[p].order

\* C9: however two stage updates interleave, a request whose update the
\* store applied is answered ok; a candidate is as it was seeded if no
\* update was applied to it, and otherwise as seeded but for stage and
\* updated_at, which are both those of the request applied last; stage
\* requests change no other collection and add no candidate.
C9_LastWriteWins ==
    /\ [](/\ \A p \in Procs : procs[p].order > 0 => (procs[p].pc = "done" /\ procs[p].code = 200)
          /\ \A i \in 1..Len(store["candidate"]) :
               LET doc == store["candidate"][i]
                   W == StageWriters(doc["_id"])
               IN  \E k \in 1..Len(sample_candidates) :
                     LET seeded == [_id |-> doc["_id"]] @@ sample_candidates[k]
                     IN  IF W = {} THEN doc = seeded
                         ELSE doc = SetFields("stage", procs[LastWriter(W)].body["stage"],
                                              procs[LastWriter(W)].t) @@ seeded)
    /\ [][\A p \in Procs :
            (procs'[p].pc # procs[p].pc /\ procs'[p].op = "stage")
            => /\ \A c \in Collections \ {"candidate"} : store'[c] = store[c]
               /\ Len(store'["candidate"]) = Len(store["candidate"])]_vars

\* Two stage updates of one candidate with different stages were both
\* applied, the one that read the clock first applied last.
C9_Witness ==
    \E p, q \in Procs :
        /\ procs[p].order = 1 /\ procs[q].order = 2
        /\ procs[p].path = procs[q].path
        /\ procs[p].body["stage"] # procs[q].body["stage"]
        /\ procs[q].t < procs[p].t
        /\ \E i \in CandidatesAt(store, procs[q].path) :
             /\ store["candidate"][i]["stage"] = procs[q].body["stage"]
             /\ store["candidate"][i]["updated_at"] = procs[q].t

\* C10: however seed requests interleave, the store never holds more than
\* one seed's documents: 2 jobs, 3 candidates, 1 interview.
C10_SeedNeverDuplicates ==
    /\ Len(store["job"]) <= Len(sample_jobs(0))
    /\ Len(store["candidate"]) <= Len(sample_candidates)
    /\ Len(store["interview"]) <= 1

====
